---- MODULE Spec2Model ----
(***************************************************************************)
(* Model of investor_agent/server.py: seven MCP tools that fetch records   *)
(* through yfinance_utils and format them into plain-text reports.         *)
(*                                                                         *)
(* A report is a sequence of lines; a line is a sequence of cell strings.  *)
(* A title line has one cell, an empty line ("" between two newlines) has  *)
(* none.  Numbers are integer-valued; NaN, None and an absent key are      *)
(* separate values, as they are in Python.                                 *)
(***************************************************************************)
EXTENDS Integers, Sequences, FiniteSets, TLC

VARIABLES request, source, result

vars == <<request, source, result>>

---------------------------------------------------------------------------
(* Bounds of the model *)

\* rows of a record set handed to a builder
MaxRows == 2
\* datetimes in a calendar entry holding a list
MaxDates == 2

---------------------------------------------------------------------------
(* Values held by records and data frames *)

Absent == [t |-> "absent"]
None == [t |-> "none"]
NaN == [t |-> "nan"]
NaT == [t |-> "nat"]
Frame(rows) == [t |-> "frame", rows |-> rows]
Num(n) == [t |-> "num", n |-> n]
Str(s) == [t |-> "str", s |-> s]
Date(y, m, d) == [t |-> "date", y |-> y, m |-> m, d |-> d]
Exc(msg) == [t |-> "exc", msg |-> msg]

IsExc(v) == v.t = "exc"

\* Python truthiness: None and 0 are falsy, NaN (a float) is truthy
Truthy(v) ==
    CASE v.t = "num" -> v.n # 0
      [] v.t = "str" -> v.s # ""
      [] v.t \in {"absent", "none"} -> FALSE
      [] OTHER -> TRUE

\* pd.isna / not pd.notnull
IsNa(v) == v.t \in {"none", "nan", "nat"}

\* dict.get(key, default) and Series.get(key, default)
Get(rec, key, default) == IF rec[key].t = "absent" THEN default ELSE rec[key]

---------------------------------------------------------------------------
(* Format specifications *)

Pad2(n) == IF n < 10 THEN "0" \o ToString(n) ELSE ToString(n)

Pad3(n) == IF n < 10 THEN "00" \o ToString(n)
           ELSE IF n < 100 THEN "0" \o ToString(n) ELSE ToString(n)

RECURSIVE Group(_)
\* thousands separators of a natural number
Group(n) == IF n < 1000 THEN ToString(n)
            ELSE Group(n \div 1000) \o "," \o Pad3(n % 1000)

Abs(n) == IF n < 0 THEN -n ELSE n

Decimals(d) == IF d = 0 THEN "" ELSE IF d = 1 THEN ".0" ELSE IF d = 2 THEN ".00" ELSE ".0000"

\* f"{v:.df}" of a float; None has no such format (TypeError)
Fixed(v, d) ==
    CASE v.t = "num" -> Str(ToString(v.n) \o Decimals(d))
      [] v.t = "nan" -> Str("nan")
      [] OTHER -> Exc("unsupported format string passed to NoneType.__format__")

\* f"{v:,.df}"
FixedSep(v, d) ==
    CASE v.t = "num" -> Str((IF v.n < 0 THEN "-" ELSE "") \o Group(Abs(v.n)) \o Decimals(d))
      [] v.t = "nan" -> Str("nan")
      [] OTHER -> Exc("unsupported format string passed to NoneType.__format__")

\* f"{v*100:.df}"
Times100(v) ==
    CASE v.t = "num" -> Num(v.n * 100)
      [] v.t = "nan" -> NaN
      [] OTHER -> Exc("unsupported operand type(s) for *: 'NoneType' and 'int'")

\* f"{v:+.2f}": an explicit sign
Signed(v, d) ==
    CASE v.t = "num" -> Str((IF v.n >= 0 THEN "+" ELSE "") \o ToString(v.n) \o Decimals(d))
      [] v.t = "nan" -> Str("+nan")
      [] OTHER -> Exc("unsupported format string passed to NoneType.__format__")

\* prefix a formatted string, passing an exception through
Pre(p, c) == IF IsExc(c) THEN c ELSE Str(p \o c.s)

\* suffix a formatted string, passing an exception through
Suf(c, s) == IF IsExc(c) THEN c ELSE Str(c.s \o s)

\* f"{x*100:.2f}%"
Percent(v, d) == IF IsExc(Times100(v)) THEN Times100(v) ELSE Suf(Fixed(Times100(v), d), "%")

\* datetime.strftime("%Y-%m-%d"); NaT does not support strftime
Strftime(v) ==
    CASE v.t = "date" -> Str(ToString(v.y) \o "-" \o Pad2(v.m) \o "-" \o Pad2(v.d))
      [] v.t = "nat" -> Exc("NaTType does not support strftime")
      [] OTHER -> Exc("object has no attribute 'strftime'")

\* pd.to_datetime of a scalar: a missing value becomes NaT
ToDatetime(v) == IF v.t = "date" THEN v ELSE NaT

\* str(x) of a raw value
PyStr(v) ==
    CASE v.t = "str" -> v.s
      [] v.t = "num" -> ToString(v.n)
      [] v.t = "nan" -> "nan"
      [] v.t = "nat" -> "NaT"
      [] OTHER -> "None"

\* str.title() of the strings the model uses; None has no title()
TitleCase(v) ==
    CASE v.t = "str" ->
           Str(CASE v.s = "buy" -> "Buy"
                 [] v.s = "strong_buy" -> "Strong_Buy"
                 [] OTHER -> v.s)
      [] OTHER -> Exc("'NoneType' object has no attribute 'title'")

---------------------------------------------------------------------------
(* tabulate(rows, headers, tablefmt="plain") and "\n".join *)

\* a cell as tabulate prints it: None is the empty missingval
CellText(v) == IF v.t = "none" THEN "" ELSE PyStr(v)

RowText(row) == [i \in DOMAIN row |-> CellText(row[i])]

\* the lines of the rendered table; an empty table without headers is ""
Tabulate(rows, headers) ==
    LET body == [i \in DOMAIN rows |-> RowText(rows[i])]
        all == IF headers = <<>> THEN body ELSE <<headers>> \o body
    IN IF all = <<>> THEN << <<>> >> ELSE all

\* the lines of the string "\n" + title
NlTitle(title) == << <<>>, <<title>> >>

RECURSIVE Join(_)
\* "\n".join(sections): each section string contributes its lines
Join(sections) ==
    IF sections = <<>> THEN << <<>> >>
    ELSE IF Len(sections) = 1 THEN sections[1]
    ELSE sections[1] \o Join(Tail(sections))

RECURSIVE FirstExc(_)
\* the first exception among a sequence of evaluated cells, in evaluation order
FirstExc(cells) ==
    IF cells = <<>> THEN None
    ELSE IF IsExc(cells[1]) THEN cells[1] ELSE FirstExc(Tail(cells))

RECURSIVE Flatten(_)
Flatten(rows) == IF rows = <<>> THEN <<>> ELSE rows[1] \o Flatten(Tail(rows))

\* what a tool call yields: a returned string or a propagated exception
Return(lines) == [kind |-> "return", lines |-> lines]
Raise(msg) == [kind |-> "raise", msg |-> msg]

\* a one-line string
Line(text) == << <<text>> >>

---------------------------------------------------------------------------
(* get_ticker_data *)

StrFields == {"longName", "sector", "industry", "recommendationKey"}

NumFields == {"marketCap", "fullTimeEmployees", "beta", "currentPrice",
              "fiftyTwoWeekLow", "fiftyTwoWeekHigh", "trailingPE", "forwardPE",
              "trailingPegRatio", "priceToBook", "dividendYield",
              "shortPercentOfFloat", "returnOnEquity", "returnOnAssets",
              "profitMargins", "operatingMargins", "debtToEquity", "currentRatio",
              "numberOfAnalystOpinions", "targetMeanPrice", "targetHighPrice",
              "targetLowPrice"}

InfoFields == StrFields \cup NumFields

\* f"${info.get(k, 0):,.2f}" if info.get(k) else "N/A"
MoneySepOrNA(info, k) ==
    IF Truthy(info[k]) THEN Pre("$", FixedSep(Get(info, k, Num(0)), 2)) ELSE Str("N/A")

\* f"${info.get(k, 0):.2f}" if info.get(k) else "N/A"
MoneyOrNA(info, k) ==
    IF Truthy(info[k]) THEN Pre("$", Fixed(Get(info, k, Num(0)), 2)) ELSE Str("N/A")

\* f"{info.get(k, 0):.2f}" if info.get(k) else "N/A"
RatioOrNA(info, k) ==
    IF Truthy(info[k]) THEN Fixed(Get(info, k, Num(0)), 2) ELSE Str("N/A")

\* f"{info.get(k, 0)*100:.2f}%" if info.get(k) else "N/A"
PercentOrNA(info, k) ==
    IF Truthy(info[k]) THEN Percent(Get(info, k, Num(0)), 2) ELSE Str("N/A")

\* f"{info.get(k, 0):,}" if info.get(k) else "N/A"
CountOrNA(info, k) ==
    IF Truthy(info[k]) THEN FixedSep(Get(info, k, Num(0)), 0) ELSE Str("N/A")

\* f"${low:.2f} - ${high:.2f}" if low and high else "N/A"
RangeOrNA(info) ==
    IF Truthy(info["fiftyTwoWeekLow"]) /\ Truthy(info["fiftyTwoWeekHigh"])
    THEN LET lo == Pre("$", Fixed(Get(info, "fiftyTwoWeekLow", Num(0)), 2))
             hi == Pre("$", Fixed(Get(info, "fiftyTwoWeekHigh", Num(0)), 2))
         IN IF IsExc(lo) THEN lo ELSE IF IsExc(hi) THEN hi
            ELSE Str(lo.s \o " - " \o hi.s)
    ELSE Str("N/A")

\* info.get(k, 'N/A'): the raw value goes to tabulate
RawOrNA(info, k) == Get(info, k, Str("N/A"))

overview(info) == <<
    <<Str("Company Name"), RawOrNA(info, "longName")>>,
    <<Str("Sector"), RawOrNA(info, "sector")>>,
    <<Str("Industry"), RawOrNA(info, "industry")>>,
    <<Str("Market Cap"), MoneySepOrNA(info, "marketCap")>>,
    <<Str("Employees"), CountOrNA(info, "fullTimeEmployees")>>,
    <<Str("Beta"), RatioOrNA(info, "beta")>> >>

metrics(info) == <<
    <<Str("Current Price"), MoneyOrNA(info, "currentPrice")>>,
    <<Str("52-Week Range"), RangeOrNA(info)>>,
    <<Str("Market Cap"), MoneySepOrNA(info, "marketCap")>>,
    <<Str("Trailing P/E"), RawOrNA(info, "trailingPE")>>,
    <<Str("Forward P/E"), RawOrNA(info, "forwardPE")>>,
    <<Str("PEG Ratio"), RawOrNA(info, "trailingPegRatio")>>,
    <<Str("Price/Book"), RatioOrNA(info, "priceToBook")>>,
    <<Str("Dividend Yield"), PercentOrNA(info, "dividendYield")>>,
    <<Str("Short % of Float"), PercentOrNA(info, "shortPercentOfFloat")>> >>

performance(info) == <<
    <<Str("Return on Equity"), PercentOrNA(info, "returnOnEquity")>>,
    <<Str("Return on Assets"), PercentOrNA(info, "returnOnAssets")>>,
    <<Str("Profit Margin"), PercentOrNA(info, "profitMargins")>>,
    <<Str("Operating Margin"), PercentOrNA(info, "operatingMargins")>>,
    <<Str("Debt to Equity"), RatioOrNA(info, "debtToEquity")>>,
    <<Str("Current Ratio"), RatioOrNA(info, "currentRatio")>> >>

analyst(info) == <<
    <<Str("Analyst Count"), Str(PyStr(RawOrNA(info, "numberOfAnalystOpinions")))>>,
    <<Str("Mean Target"), MoneyOrNA(info, "targetMeanPrice")>>,
    <<Str("High Target"), MoneyOrNA(info, "targetHighPrice")>>,
    <<Str("Low Target"), MoneyOrNA(info, "targetLowPrice")>>,
    <<Str("Recommendation"), TitleCase(RawOrNA(info, "recommendationKey"))>> >>

\* the four sections every report of a non-empty info record starts with
FixedSections(info) == <<
    Line("COMPANY OVERVIEW"), Tabulate(overview(info), <<>>),
    NlTitle("KEY METRICS"), Tabulate(metrics(info), <<>>),
    NlTitle("PERFORMANCE METRICS"), Tabulate(performance(info), <<>>),
    NlTitle("ANALYST COVERAGE"), Tabulate(analyst(info), <<>>) >>

FixedCells(info) ==
    Flatten(overview(info)) \o Flatten(metrics(info))
        \o Flatten(performance(info)) \o Flatten(analyst(info))

\* isinstance(value, list) and all(isinstance(d, datetime) for d in value)
IsDateList(v) == v.t = "list" /\ \A i \in DOMAIN v.items : v.items[i].t = "date"

\* one calendar entry: <<>> when skipped, a row, or an exception
DateRow(e) ==
    IF e.value.t = "date" THEN << <<Str(e.key), Strftime(e.value)>> >>
    ELSE IF IsDateList(e.value)
    THEN IF Len(e.value.items) < 1 \/ Len(e.value.items) < 2
         THEN << <<Exc("list index out of range")>> >>
         ELSE << <<Str(e.key),
                   Str(Strftime(e.value.items[1]).s \o "-" \o Strftime(e.value.items[2]).s)>> >>
    ELSE <<>>

RECURSIVE dates_data(_)
dates_data(calendar) ==
    IF calendar = <<>> THEN <<>>
    ELSE DateRow(calendar[1]) \o dates_data(Tail(calendar))

RecCols == <<"period", "strongBuy", "buy", "hold", "sell", "strongSell">>

UpgCols == <<"Firm", "FromGrade", "ToGrade">>

\* all(pd.isna(val) for val in row.values) over the columns of the frame
AllNa(row, cols) == \A i \in DOMAIN cols : IsNa(row[cols[i]])

RECURSIVE rec_data(_)
rec_data(recommendations) ==
    IF recommendations = <<>> THEN <<>>
    ELSE LET row == recommendations[1]
         IN (IF AllNa(row, RecCols) THEN <<>>
             ELSE << [i \in DOMAIN RecCols |-> row[RecCols[i]]] >>)
            \o rec_data(Tail(recommendations))

RECURSIVE upg_data(_)
upg_data(upgrades) ==
    IF upgrades = <<>> THEN <<>>
    ELSE LET row == upgrades[1]
         IN (IF AllNa(row, UpgCols) THEN <<>>
             ELSE << << Strftime(ToDatetime(row.name)),
                        Get(row, "Firm", Str("N/A")),
                        Str(PyStr(Get(row, "FromGrade", Str("N/A"))) \o " -> "
                            \o PyStr(Get(row, "ToGrade", Str("N/A")))) >> >>)
            \o upg_data(Tail(upgrades))

\* a fetch that returned nothing usable: None, {} or an empty frame
Empty(fetch) == fetch.v = None \/ fetch.v.rows = <<>>

DatesSection(cal) ==
    IF Empty(cal) \/ dates_data(cal.v.rows) = <<>> THEN <<>>
    ELSE << NlTitle("IMPORTANT DATES"), Tabulate(dates_data(cal.v.rows), <<"Event", "Date">>) >>

RecSection(rec) ==
    IF Empty(rec) \/ rec_data(rec.v.rows) = <<>> THEN <<>>
    ELSE << NlTitle("RECENT ANALYST RECOMMENDATIONS"),
            Tabulate(rec_data(rec.v.rows),
                     <<"Period", "Strong Buy", "Buy", "Hold", "Sell", "Strong Sell">>) >>

UpgSection(upg) ==
    IF Empty(upg) \/ upg_data(upg.v.rows) = <<>> THEN <<>>
    ELSE << NlTitle("RECENT UPGRADES/DOWNGRADES"),
            Tabulate(upg_data(upg.v.rows), <<"Date", "Firm", "Change">>) >>

\* the first exception the try block of get_ticker_data meets, else None
TickerExc(info, cal, rec, upg) ==
    IF info.k = "raise" THEN Exc(info.msg)
    ELSE IF FirstExc(FixedCells(info.v)) # None THEN FirstExc(FixedCells(info.v))
    ELSE IF cal.k = "raise" THEN Exc(cal.msg)
    ELSE IF ~Empty(cal) /\ FirstExc(Flatten(dates_data(cal.v.rows))) # None
         THEN FirstExc(Flatten(dates_data(cal.v.rows)))
    ELSE IF rec.k = "raise" THEN Exc(rec.msg)
    ELSE IF upg.k = "raise" THEN Exc(upg.msg)
    ELSE IF ~Empty(upg) THEN FirstExc(Flatten(upg_data(upg.v.rows)))
    ELSE None

\* if not info
NoInfo(info) == info.k = "ok" /\ (info.v = None \/ \A f \in InfoFields : info.v[f] = Absent)

TickerReport(ticker, info, cal, rec, upg) ==
    IF NoInfo(info) THEN Return(Line("No information available for " \o ticker))
    ELSE IF TickerExc(info, cal, rec, upg) # None
    THEN Return(Line("Failed to retrieve data for " \o ticker \o ": "
                     \o TickerExc(info, cal, rec, upg).msg))
    ELSE Return(Join(FixedSections(info.v) \o DatesSection(cal)
                     \o RecSection(rec) \o UpgSection(upg)))

---------------------------------------------------------------------------
(* get_available_options *)

\* num_options: int = 10
DefaultNumOptions == 10

\* "C" in row['contractSymbol']: a substring test over the whole symbol
ContainsC(sym) == \E i \in DOMAIN sym : sym[i] = "C"

\* "C" if "C" in row['contractSymbol'] else "P"
TypeCell(sym) == IF ContainsC(sym) THEN Str("C") ELSE Str("P")

\* a slip in the limit: one row more than asked for
DfHeadOffByOne(df, n) ==
    LET k == IF n >= 0 THEN (IF n + 1 < Len(df) THEN n + 1 ELSE Len(df))
             ELSE (IF Len(df) + n > 0 THEN Len(df) + n ELSE 0)
    IN SubSeq(df, 1, k)

\* df.head(n): the first n rows, or all but the last -n when n is negative
DfHead(df, n) ==
    LET k == IF n >= 0 THEN (IF n < Len(df) THEN n ELSE Len(df))
             ELSE (IF Len(df) + n > 0 THEN Len(df) + n ELSE 0)
    IN SubSeq(df, 1, k)

\* int(row['openInterest']) if pd.notnull(row['openInterest']) else 0
OpenInterestCell(row) == IF ~IsNa(row.openInterest) THEN row.openInterest ELSE Num(0)

\* int(row['volume']) if pd.notnull(row['volume']) and row['volume'] > 0 else "N/A"
VolumeCell(row) ==
    IF ~IsNa(row.volume) /\ row.volume.n > 0 THEN row.volume ELSE Str("N/A")

\* f"{row['impliedVolatility']*100:.1f}%" if pd.notnull(...) else "N/A"
IVCell(row) ==
    IF ~IsNa(row.impliedVolatility) THEN Percent(row.impliedVolatility, 1) ELSE Str("N/A")

OptionRow(row) == <<
    TypeCell(row.contractSymbol),
    Pre("$", Fixed(row.strike, 2)),
    row.expiryDate,
    OpenInterestCell(row),
    VolumeCell(row),
    IVCell(row) >>

options_data(df, num_options) ==
    [i \in DOMAIN DfHead(df, num_options) |-> OptionRow(DfHead(df, num_options)[i])]

OptionHeaders == <<"Type", "Strike", "Expiry", "OI", "Vol", "IV">>

OptionsReport(ticker_symbol, num_options, fetch) ==
    IF fetch.k = "raise"
    THEN Return(Line("Failed to retrieve options data for " \o ticker_symbol \o ": " \o fetch.msg))
    ELSE IF fetch.error # None THEN Return(Line(fetch.error.s))
    ELSE IF FirstExc(Flatten(options_data(fetch.v.rows, num_options))) # None
    THEN Return(Line("Failed to retrieve options data for " \o ticker_symbol \o ": "
                     \o FirstExc(Flatten(options_data(fetch.v.rows, num_options))).msg))
    ELSE Return(Tabulate(options_data(fetch.v.rows, num_options), OptionHeaders))

---------------------------------------------------------------------------
(* get_price_history *)

\* f"${row['Dividends']:.4f}" if row['Dividends'] > 0 else "-"
DividendCell(row) ==
    IF row.Dividends.t = "num" /\ row.Dividends.n > 0
    THEN Pre("$", Fixed(row.Dividends, 4)) ELSE Str("-")

\* f"{row['Stock Splits']:.0f}:1" if row['Stock Splits'] > 0 else "-"
SplitCell(row) ==
    IF row.StockSplits.t = "num" /\ row.StockSplits.n > 0
    THEN Suf(Fixed(row.StockSplits, 0), ":1") ELSE Str("-")

PriceRow(row) == <<
    Strftime(row.idx),
    Pre("$", Fixed(row.Open, 2)),
    Pre("$", Fixed(row.Close, 2)),
    FixedSep(row.Volume, 0),
    DividendCell(row),
    SplitCell(row) >>

price_data(history) == [i \in DOMAIN history |-> PriceRow(history[i])]

PriceHeaders == <<"Date", "Open", "Close", "Volume", "Dividends", "Splits">>

PriceReport(ticker, period, fetch) ==
    IF fetch.k = "raise" THEN Raise(fetch.msg)
    ELSE IF Empty(fetch) THEN Return(Line("No historical data found for " \o ticker))
    ELSE IF FirstExc(Flatten(price_data(fetch.v.rows))) # None
    THEN Raise(FirstExc(Flatten(price_data(fetch.v.rows))).msg)
    ELSE Return(Line("PRICE HISTORY FOR " \o ticker \o " (" \o period \o "):")
                \o Tabulate(price_data(fetch.v.rows), PriceHeaders))

---------------------------------------------------------------------------
(* get_financial_statements *)

Billion == 1000000000

Million == 1000000

\* f"{value/unit:.1f}": the quotient rounded to the nearest tenth.  An exact
\* decimal tie is decided by the binary float in Python; the statement values
\* of the model hold no tie, and ties to even stands in for the rule.
OneDecimal(value, unit) ==
    LET a == Abs(value)
        step == unit \div 10
        q == a \div step
        r == a % step
        t == IF 2 * r > step \/ (2 * r = step /\ q % 2 = 1) THEN q + 1 ELSE q
    IN (IF value < 0 THEN "-" ELSE "") \o ToString(t \div 10) \o "." \o ToString(t % 10)

\* a slip in the threshold: the sign of the value is not dropped
StatementCellSigned(value) ==
    IF IsNa(value) THEN Str("N/A")
    ELSE IF value.n >= Billion THEN Str("$" \o OneDecimal(value.n, Billion) \o "B")
    ELSE Str("$" \o OneDecimal(value.n, Million) \o "M")

\* "N/A" if pd.isna(value) else f"${value/1e9:.1f}B" if abs(value) >= 1e9
\* else f"${value/1e6:.1f}M"
StatementCell(value) ==
    IF IsNa(value) THEN Str("N/A")
    ELSE IF Abs(value.n) >= Billion THEN Str("$" \o OneDecimal(value.n, Billion) \o "B")
    ELSE Str("$" \o OneDecimal(value.n, Million) \o "M")

\* [metric] + [cell for value in data.loc[metric]]
StatementRow(data, m) ==
    <<Str(data.index[m])>> \o [c \in DOMAIN data.columns |-> StatementCell(data.cells[m][c])]

statement_data(data) == [m \in DOMAIN data.index |-> StatementRow(data, m)]

\* ["Metric"] + [date.strftime("%Y-%m-%d") for date in data.columns]
StatementHeaders(data) ==
    <<"Metric">> \o [c \in DOMAIN data.columns |-> Strftime(data.columns[c]).s]

Upper(s) ==
    CASE s = "income" -> "INCOME" [] s = "balance" -> "BALANCE" [] s = "cash" -> "CASH"
      [] s = "quarterly" -> "QUARTERLY" [] s = "annual" -> "ANNUAL" [] OTHER -> s

\* DataFrame.empty: some axis has length 0
FrameEmpty(data) == data.index = <<>> \/ data.columns = <<>>

StatementReport(ticker, statement_type, frequency, fetch) ==
    IF fetch.k = "raise" THEN Raise(fetch.msg)
    ELSE IF fetch.v = None \/ FrameEmpty(fetch.v)
    THEN Return(Line("No " \o statement_type \o " statement data found for " \o ticker))
    ELSE Return(Line(Upper(frequency) \o " " \o Upper(statement_type)
                     \o " STATEMENT FOR " \o ticker \o ":")
                \o Line("(Values in billions/millions USD)")
                \o Tabulate(statement_data(fetch.v), StatementHeaders(fetch.v)))

---------------------------------------------------------------------------
(* get_institutional_holders *)

\* f"{row['pctChange']*100:+.2f}%" if pd.notnull(row['pctChange']) else "N/A"
PctChangeCell(row) ==
    IF ~IsNa(row.pctChange) THEN Suf(Signed(Times100(row.pctChange), 2), "%") ELSE Str("N/A")

HolderRow(row) == <<
    row.Holder,
    FixedSep(row.Shares, 0),
    Pre("$", FixedSep(row.Value, 0)),
    Percent(row.pctHeld, 2),
    Strftime(ToDatetime(row.DateReported)),
    PctChangeCell(row) >>

format_holder_data(df) == [i \in DOMAIN df |-> HolderRow(df[i])]

HolderHeaders == <<"Holder", "Shares", "Value", "% Held", "Date Reported", "% Change">>

\* df is not None and not df.empty
HasRows(df) == df # None /\ df.rows # <<>>

InstSection(inst) ==
    IF HasRows(inst)
    THEN << Line("INSTITUTIONAL HOLDERS:"), Tabulate(format_holder_data(inst.rows), HolderHeaders) >>
    ELSE <<>>

FundSection(fund) ==
    IF HasRows(fund)
    THEN << NlTitle("MUTUAL FUND HOLDERS:"), Tabulate(format_holder_data(fund.rows), HolderHeaders) >>
    ELSE <<>>

HolderCells(inst, fund) ==
    (IF HasRows(inst) THEN Flatten(format_holder_data(inst.rows)) ELSE <<>>)
    \o (IF HasRows(fund) THEN Flatten(format_holder_data(fund.rows)) ELSE <<>>)

\* a slip in the guard: either record set empty gives the no-data line
HoldersReportEitherEmpty(ticker, top_n, fetch) ==
    IF fetch.k = "raise" THEN Raise(fetch.msg)
    ELSE IF ~HasRows(fetch.inst) \/ ~HasRows(fetch.fund)
    THEN Return(Line("No institutional holder data found for " \o ticker))
    ELSE IF FirstExc(HolderCells(fetch.inst, fetch.fund)) # None
    THEN Raise(FirstExc(HolderCells(fetch.inst, fetch.fund)).msg)
    ELSE Return(Join(InstSection(fetch.inst) \o FundSection(fetch.fund)))

HoldersReport(ticker, top_n, fetch) ==
    IF fetch.k = "raise" THEN Raise(fetch.msg)
    ELSE IF ~HasRows(fetch.inst) /\ ~HasRows(fetch.fund)
    THEN Return(Line("No institutional holder data found for " \o ticker))
    ELSE IF FirstExc(HolderCells(fetch.inst, fetch.fund)) # None
    THEN Raise(FirstExc(HolderCells(fetch.inst, fetch.fund)).msg)
    ELSE Return(Join(InstSection(fetch.inst) \o FundSection(fetch.fund)))

---------------------------------------------------------------------------
(* get_earnings_history *)

\* f"${row[k]:.2f}" if pd.notnull(row[k]) else "N/A"
EpsCell(v) == IF ~IsNa(v) THEN Pre("$", Fixed(v, 2)) ELSE Str("N/A")

\* f"{row['surprisePercent']:.1f}%" if pd.notnull(...) else "N/A"
SurpriseCell(v) == IF ~IsNa(v) THEN Suf(Fixed(v, 1), "%") ELSE Str("N/A")

EarningsRow(row) == <<
    Strftime(row.date),
    EpsCell(row.epsEstimate),
    EpsCell(row.epsActual),
    EpsCell(row.epsDifference),
    SurpriseCell(row.surprisePercent) >>

earnings_data(df) == [i \in DOMAIN df |-> EarningsRow(df[i])]

EarningsHeaders == <<"Date", "EPS Est", "EPS Act", "Surprise", "Surprise %">>

EarningsReport(ticker, fetch) ==
    IF fetch.k = "raise" THEN Raise(fetch.msg)
    ELSE IF Empty(fetch) THEN Return(Line("No earnings history data found for " \o ticker))
    ELSE IF FirstExc(Flatten(earnings_data(fetch.v.rows))) # None
    THEN Raise(FirstExc(Flatten(earnings_data(fetch.v.rows))).msg)
    ELSE Return(Line("EARNINGS HISTORY FOR " \o ticker \o ":")
                \o Tabulate(earnings_data(fetch.v.rows), EarningsHeaders))

---------------------------------------------------------------------------
(* get_insider_trades *)

\* f"{row.get('Shares', 0):,.0f}"
SharesCell(row) == FixedSep(Get(row, "Shares", Num(0)), 0)

\* f"${row.get('Value', 0):,.0f}" if pd.notnull(row.get('Value')) else "N/A"
ValueCell(row) ==
    IF ~IsNa(Get(row, "Value", None))
    THEN Pre("$", FixedSep(Get(row, "Value", Num(0)), 0)) ELSE Str("N/A")

TradeRow(row) == <<
    Strftime(ToDatetime(row.StartDate)),
    Get(row, "Insider", Str("N/A")),
    Get(row, "Position", Str("N/A")),
    Get(row, "Transaction", Str("N/A")),
    SharesCell(row),
    ValueCell(row) >>

trades_data(df) == [i \in DOMAIN df |-> TradeRow(df[i])]

TradeHeaders == <<"Date", "Insider", "Title", "Transaction", "Shares", "Value">>

TradesReport(ticker, fetch) ==
    IF fetch.k = "raise" THEN Raise(fetch.msg)
    ELSE IF Empty(fetch) THEN Return(Line("No insider trading data found for " \o ticker))
    ELSE IF FirstExc(Flatten(trades_data(fetch.v.rows))) # None
    THEN Raise(FirstExc(Flatten(trades_data(fetch.v.rows))).msg)
    ELSE Return(Line("INSIDER TRADES FOR " \o ticker \o ":")
                \o Tabulate(trades_data(fetch.v.rows), TradeHeaders))

---------------------------------------------------------------------------
(* What yfinance_utils hands to the tools: the inputs of the model *)

Tickers == {"AAPL", "CSCO"}

\* a fetch either raises or returns a value
Raised == [k |-> "raise", msg |-> "ConnectionError"]
Ok(v) == [k |-> "ok", v |-> v]

SeqsUpTo(S, n) == UNION {[1..k -> S] : k \in 0..n}

Day(d) == Date(2025, 1, d)

FullValue(f) ==
    CASE f = "longName" -> Str("Acme Corp")
      [] f = "sector" -> Str("Technology")
      [] f = "industry" -> Str("Software")
      [] f = "recommendationKey" -> Str("buy")
      [] OTHER -> Num(1234)

\* an info record whose fields all are of one kind
InfoOf(base) ==
    [f \in InfoFields |->
        CASE base = "absent" -> Absent
          [] base = "none" -> None
          [] base = "nan" -> IF f \in NumFields THEN NaN ELSE None
          [] base = "zero" -> IF f \in NumFields THEN Num(0) ELSE FullValue(f)
          [] OTHER -> FullValue(f)]

FieldValues(f) ==
    IF f \in NumFields THEN {Absent, None, NaN, Num(0), Num(1234)}
    ELSE {Absent, None, FullValue(f), Str("strong_buy")}

\* the uniform records, and the populated record with one field changed
Infos ==
    {InfoOf(b) : b \in {"absent", "none", "nan", "zero", "full"}}
    \cup UNION {{[InfoOf("full") EXCEPT ![f] = v] : v \in FieldValues(f)} : f \in InfoFields}

InfoFetches == {Raised, Ok(None)} \cup {Ok(i) : i \in Infos}

DateList(k) == [t |-> "list", items |-> [i \in 1..k |-> Day(i)]]

\* a calendar: per event an entry or none, in the provider's order
CalendarOf(earn, exdiv, avg) ==
    Frame((IF earn < 0 THEN <<>>
           ELSE <<[key |-> "Earnings Date", value |-> DateList(earn)]>>)
          \o (IF exdiv THEN <<[key |-> "Ex-Dividend Date", value |-> Day(9)]>> ELSE <<>>)
          \o (IF avg THEN <<[key |-> "Earnings Average", value |-> Num(2)]>> ELSE <<>>))

CalendarFetches ==
    {Raised, Ok(None)}
    \cup {Ok(CalendarOf(e, x, a)) : e \in -1..MaxDates, x \in BOOLEAN, a \in BOOLEAN}

RecRows == {
    [period |-> NaN, strongBuy |-> NaN, buy |-> NaN, hold |-> NaN, sell |-> NaN,
     strongSell |-> NaN],
    [period |-> Str("0m"), strongBuy |-> Num(5), buy |-> Num(9), hold |-> NaN,
     sell |-> Num(1), strongSell |-> Num(0)] }

RecFetches == {Raised, Ok(None)} \cup {Ok(Frame(r)) : r \in SeqsUpTo(RecRows, MaxRows)}

UpgRows == {
    [name |-> Day(3), Firm |-> NaN, FromGrade |-> NaN, ToGrade |-> NaN],
    [name |-> Day(4), Firm |-> Str("Baird"), FromGrade |-> NaN, ToGrade |-> Str("Buy")],
    [name |-> NaT, Firm |-> Str("Citi"), FromGrade |-> Str("Hold"), ToGrade |-> Str("Sell")] }

UpgFetches == {Raised, Ok(None)} \cup {Ok(Frame(r)) : r \in SeqsUpTo(UpgRows, MaxRows)}

NoOptional == Ok(None)

\* every info with no optional data, and the populated info with all optional data
TickerInputs ==
    {<<i, NoOptional, NoOptional, NoOptional>> : i \in InfoFetches}
    \cup {<<i, c, r, u>> : i \in {Ok(InfoOf("full")), Ok(InfoOf("zero"))},
                           c \in CalendarFetches, r \in RecFetches, u \in UpgFetches}


\* the characters of the underlying's symbol
UnderlyingChars(ticker) ==
    IF ticker = "AAPL" THEN <<"A", "A", "P", "L">> ELSE <<"C", "S", "C", "O">>

\* an OCC contract symbol: underlying, yymmdd, C or P, strike in eight digits
OccSymbol(ticker, side) ==
    UnderlyingChars(ticker) \o <<"2", "5", "0", "1", "1", "7">> \o <<side>>
        \o <<"0", "0", "1", "5", "0", "0", "0", "0">>

\* the side the symbol states: the marker before the eight strike digits
IsPutSymbol(sym) == sym[Len(sym) - 8] = "P"

Contract(ticker, side, oi, vol, iv) ==
    [contractSymbol |-> OccSymbol(ticker, side), strike |-> Num(150),
     expiryDate |-> Str("2025-01-17"), openInterest |-> oi, volume |-> vol,
     impliedVolatility |-> iv]

OptionRows(ticker) == {
    Contract(ticker, "C", Num(1200), Num(35), Num(1)),
    Contract(ticker, "P", Num(800), Num(12), Num(2)),
    Contract(ticker, "C", NaN, Num(35), Num(1)),
    Contract(ticker, "P", Num(0), NaN, Num(1)),
    Contract(ticker, "C", Num(1200), Num(0), NaN),
    Contract(ticker, "P", NaN, NaN, NaN) }

\* a chain longer than the default limit: calls and puts in turn
LongChain(ticker, k) ==
    [i \in 1..k |-> Contract(ticker, IF i % 2 = 1 THEN "C" ELSE "P", Num(i), Num(i), Num(1))]

OptionChains(ticker) ==
    SeqsUpTo(OptionRows(ticker), MaxRows)
    \cup {LongChain(ticker, k) : k \in {DefaultNumOptions, DefaultNumOptions + 1}}

OptionFetches(ticker) ==
    {Raised, [k |-> "ok", v |-> None, error |-> Str("No options found for " \o ticker)]}
    \cup {[k |-> "ok", v |-> Frame(c), error |-> None] : c \in OptionChains(ticker)}

\* the caller's limit: omitted, or an integer
Limits == {Absent} \cup {Num(n) : n \in -1..(MaxRows + 1)}

Bar(d, open, close, volume, div, split) ==
    [idx |-> Day(d), Open |-> open, Close |-> close, Volume |-> volume,
     Dividends |-> div, StockSplits |-> split]

PriceRows == {
    Bar(2, Num(150), Num(152), Num(1234567), Num(0), Num(0)),
    Bar(3, Num(152), Num(149), Num(900), Num(1), Num(2)),
    Bar(4, NaN, Num(149), NaN, Num(0), Num(0)),
    Bar(5, Num(150), NaN, Num(900), NaN, NaN),
    Bar(6, NaN, NaN, NaN, NaN, NaN) }

PriceFetches == {Raised, Ok(None)} \cup {Ok(Frame(r)) : r \in SeqsUpTo(PriceRows, MaxRows)}

Periods == {"1mo", "1y"}

\* period columns of a statement
MaxPeriods == 2

StatementValues == {NaN, Num(0), Num(2500000), Num(1234567890), Num(999999999),
                    Num(1000000000), Num(-1000000000), Num(-2500000), Num(-40000)}

MetricNames == <<"Total Revenue", "Net Income", "EBITDA", "Gross Profit">>

\* a statement of r metrics by c periods: one value everywhere but in one cell
StatementOf(r, c, base, i, j, v) ==
    [t |-> "frame",
     index |-> [m \in 1..r |-> MetricNames[m]],
     columns |-> [p \in 1..c |-> Day(p)],
     cells |-> [m \in 1..r |-> [p \in 1..c |-> IF m = i /\ p = j THEN v ELSE base]]]

Statements ==
    {StatementOf(r, c, b, i, j, v) :
        r \in 0..MaxRows, c \in 0..MaxPeriods, b \in StatementValues,
        i \in 1..MaxRows, j \in 1..MaxPeriods, v \in StatementValues}

StatementFetches == {Raised, Ok(None)} \cup {Ok(d) : d \in Statements}

StatementTypes == {"income", "balance", "cash"}

Frequencies == {"quarterly", "annual"}

Holding(holder, shares, value, held, reported, change) ==
    [Holder |-> Str(holder), Shares |-> shares, Value |-> value, pctHeld |-> held,
     DateReported |-> reported, pctChange |-> change]

HolderRows == {
    Holding("Vanguard", Num(1234567), Num(9876543), Num(7), Day(7), Num(-2)),
    Holding("Blackrock", NaN, NaN, NaN, Day(8), NaN),
    Holding("Fidelity", Num(500), Num(700), Num(1), NaN, Num(3)),
    [Holder |-> NaN, Shares |-> NaN, Value |-> NaN, pctHeld |-> NaN,
     DateReported |-> NaN, pctChange |-> NaN] }

HolderFrames == {None} \cup {Frame(r) : r \in SeqsUpTo(HolderRows, MaxRows)}

HolderFetches ==
    {Raised} \cup {[k |-> "ok", inst |-> i, fund |-> f] : i \in HolderFrames, f \in HolderFrames}

Quarter(d, est, act, diff, pct) ==
    [date |-> Day(d), epsEstimate |-> est, epsActual |-> act, epsDifference |-> diff,
     surprisePercent |-> pct]

EarningsRows == {
    Quarter(10, Num(2), Num(3), Num(1), Num(50)),
    Quarter(11, NaN, Num(3), NaN, NaN),
    Quarter(12, Num(2), NaN, Num(-1), Num(-5)),
    Quarter(13, NaN, NaN, NaN, NaN) }

EarningsFetches == {Raised, Ok(None)} \cup {Ok(Frame(r)) : r \in SeqsUpTo(EarningsRows, MaxRows)}

Trade(start, insider, shares, value) ==
    [StartDate |-> start, Insider |-> insider, Position |-> insider,
     Transaction |-> insider, Shares |-> shares, Value |-> value]

TradeRows == {
    Trade(Day(14), Str("Cook"), Num(50000), Num(7500000)),
    Trade(Day(15), Str("Cook"), NaN, NaN),
    Trade(Day(16), Absent, Absent, Absent),
    Trade(Day(17), NaN, Num(0), Num(0)),
    Trade(NaN, NaN, NaN, NaN) }

TradeFetches == {Raised, Ok(None)} \cup {Ok(Frame(r)) : r \in SeqsUpTo(TradeRows, MaxRows)}

---------------------------------------------------------------------------
(* The server: one tool call at a time, each answered before the next *)

Idle == [tool |-> "none"]

Init ==
    /\ request = Idle
    /\ source = Idle
    /\ result = Idle

get_ticker_data ==
    /\ request = Idle
    /\ \E ticker \in Tickers, in \in TickerInputs :
        /\ request' = [tool |-> "get_ticker_data", ticker |-> ticker]
        /\ source' = [info |-> in[1], calendar |-> in[2], recommendations |-> in[3],
                      upgrades |-> in[4]]
        /\ result' = TickerReport(ticker, in[1], in[2], in[3], in[4])

get_available_options ==
    /\ request = Idle
    /\ \E ticker \in Tickers, limit \in Limits :
        \E fetch \in OptionFetches(ticker) :
            /\ request' = [tool |-> "get_available_options", ticker |-> ticker,
                           num_options |-> limit]
            /\ source' = fetch
            /\ result' = OptionsReport(ticker, Get([n |-> limit], "n", Num(DefaultNumOptions)).n,
                                       fetch)

get_price_history ==
    /\ request = Idle
    /\ \E ticker \in Tickers, period \in Periods, fetch \in PriceFetches :
        /\ request' = [tool |-> "get_price_history", ticker |-> ticker, period |-> period]
        /\ source' = fetch
        /\ result' = PriceReport(ticker, period, fetch)

get_financial_statements ==
    /\ request = Idle
    /\ \E ticker \in Tickers, st \in StatementTypes, fr \in Frequencies,
          fetch \in StatementFetches :
        /\ request' = [tool |-> "get_financial_statements", ticker |-> ticker,
                       statement_type |-> st, frequency |-> fr]
        /\ source' = fetch
        /\ result' = StatementReport(ticker, st, fr, fetch)

get_institutional_holders ==
    /\ request = Idle
    /\ \E ticker \in Tickers, fetch \in HolderFetches :
        /\ request' = [tool |-> "get_institutional_holders", ticker |-> ticker]
        /\ source' = fetch
        /\ result' = HoldersReport(ticker, 20, fetch)

get_earnings_history ==
    /\ request = Idle
    /\ \E ticker \in Tickers, fetch \in EarningsFetches :
        /\ request' = [tool |-> "get_earnings_history", ticker |-> ticker]
        /\ source' = fetch
        /\ result' = EarningsReport(ticker, fetch)

get_insider_trades ==
    /\ request = Idle
    /\ \E ticker \in Tickers, fetch \in TradeFetches :
        /\ request' = [tool |-> "get_insider_trades", ticker |-> ticker]
        /\ source' = fetch
        /\ result' = TradesReport(ticker, fetch)

\* the host takes the answer; the tools keep nothing between calls
Respond ==
    /\ request # Idle
    /\ request' = Idle
    /\ source' = Idle
    /\ result' = Idle

Next ==
    \/ get_ticker_data
    \/ get_available_options
    \/ get_price_history
    \/ get_financial_statements
    \/ get_institutional_holders
    \/ get_earnings_history
    \/ get_insider_trades
    \/ Respond

Spec == Init /\ [][Next]_vars

---------------------------------------------------------------------------
(* Reading a call and its answer *)

Called(tool) == request.tool = tool

Returned == request # Idle /\ result.kind = "return"

OptionalFetches == {"calendar", "recommendations", "upgrades"}

\* the fetch (any of them, for get_ticker_data) raised
SourceRaised ==
    /\ request # Idle
    /\ IF Called("get_ticker_data")
       THEN source.info.k = "raise" \/ \E f \in OptionalFetches : source[f].k = "raise"
       ELSE source.k = "raise"

\* the returned text is one line of one cell
OneLine == Returned /\ Len(result.lines) = 1 /\ Len(result.lines[1]) = 1

\* the message a builder has for an entity without data
NoDataLine(tool, ticker) ==
    CASE tool = "get_ticker_data" -> "No information available for " \o ticker
      [] tool = "get_price_history" -> "No historical data found for " \o ticker
      [] tool = "get_financial_statements" ->
            "No " \o request.statement_type \o " statement data found for " \o ticker
      [] tool = "get_institutional_holders" ->
            "No institutional holder data found for " \o ticker
      [] tool = "get_earnings_history" -> "No earnings history data found for " \o ticker
      [] tool = "get_insider_trades" -> "No insider trading data found for " \o ticker
      [] OTHER -> ""

Missing(v) == v.t \in {"absent", "none", "nan", "nat"}

Placeholders == {"N/A", "-"}

\* the lines of a report that are the given line
Count(lines, line) == Cardinality({i \in DOMAIN lines : lines[i] = line})

Has(lines, title) == \E i \in DOMAIN lines : lines[i] = <<title>>

\* a two-cell row of a label/value table
Labelled(line, label) == Len(line) = 2 /\ line[1] = label

Position(lines, title) == CHOOSE i \in DOMAIN lines : lines[i] = <<title>>

---------------------------------------------------------------------------
(* C1 *)

\* C1: whenever the market-data source call raises, each of the seven builders
\* returns a single diagnostic line and does not propagate the exception.
C1_SourceErrorGivesDiagnosticLine == SourceRaised => OneLine

---------------------------------------------------------------------------
(* C2 *)

\* a non-empty record set whose every field is missing
AllMissingRows(rows, cols) ==
    rows # <<>> /\ \A i \in DOMAIN rows : \A c \in cols : Missing(rows[i][c])

AllMissingSource ==
    CASE Called("get_ticker_data") ->
            /\ source.info.k = "ok" /\ source.info.v # None
            /\ \A f \in InfoFields : source.info.v[f] \in {None, NaN}
            /\ \A f \in OptionalFetches : source[f] = NoOptional
      [] Called("get_price_history") ->
            /\ source.k = "ok" /\ source.v # None
            /\ AllMissingRows(source.v.rows,
                              {"Open", "Close", "Volume", "Dividends", "StockSplits"})
      [] Called("get_financial_statements") ->
            /\ source.k = "ok" /\ source.v # None /\ ~FrameEmpty(source.v)
            /\ \A m \in DOMAIN source.v.index : \A c \in DOMAIN source.v.columns :
                  Missing(source.v.cells[m][c])
      [] Called("get_institutional_holders") ->
            /\ source.k = "ok" /\ source.inst # None /\ source.fund = None
            /\ AllMissingRows(source.inst.rows,
                              {"Holder", "Shares", "Value", "pctHeld", "DateReported",
                               "pctChange"})
      [] Called("get_earnings_history") ->
            /\ source.k = "ok" /\ source.v # None
            /\ AllMissingRows(source.v.rows,
                              {"epsEstimate", "epsActual", "epsDifference",
                               "surprisePercent"})
      [] Called("get_insider_trades") ->
            /\ source.k = "ok" /\ source.v # None
            /\ AllMissingRows(source.v.rows,
                              {"StartDate", "Insider", "Position", "Transaction",
                               "Shares", "Value"})
      [] OTHER -> FALSE

\* C2: given records whose every field is missing, every builder returns its
\* "no data for entity" message and never raises.
C2_AllMissingGivesNoDataMessage ==
    AllMissingSource =>
        /\ Returned
        /\ result.lines = Line(NoDataLine(request.tool, request.ticker))

---------------------------------------------------------------------------
(* C3 *)

\* the returned text is a table under a one-line title (or none) and a header
IsTable(titleLines, headers) ==
    /\ Returned
    /\ Len(result.lines) > titleLines
    /\ result.lines[titleLines + 1] = headers

\* cell col of the data row made from source row i
TableCell(titleLines, i, col) == result.lines[titleLines + 1 + i][col]

MissingShownAsPlaceholder(titleLines, rows, field, col) ==
    \A i \in DOMAIN rows :
        (titleLines + 1 + i <= Len(result.lines) /\ Missing(rows[i][field]))
            => TableCell(titleLines, i, col) \in Placeholders

\* C3: every cell whose source field is missing is rendered as a placeholder
\* token: options open interest, insider share count, price open/close/volume,
\* holder shares/value/percent held, and the overview P/E and PEG cells.
C3_MissingIsPlaceholder ==
    /\ (Called("get_available_options") /\ IsTable(0, OptionHeaders))
          => MissingShownAsPlaceholder(0, source.v.rows, "openInterest", 4)
    /\ (Called("get_insider_trades") /\ IsTable(1, TradeHeaders))
          => MissingShownAsPlaceholder(1, source.v.rows, "Shares", 5)
    /\ (Called("get_price_history") /\ IsTable(1, PriceHeaders))
          => /\ MissingShownAsPlaceholder(1, source.v.rows, "Open", 2)
             /\ MissingShownAsPlaceholder(1, source.v.rows, "Close", 3)
             /\ MissingShownAsPlaceholder(1, source.v.rows, "Volume", 4)
    /\ (Called("get_institutional_holders") /\ Returned /\ source.fund = None
            /\ Has(result.lines, "INSTITUTIONAL HOLDERS:"))
          => /\ MissingShownAsPlaceholder(1, source.inst.rows, "Shares", 2)
             /\ MissingShownAsPlaceholder(1, source.inst.rows, "Value", 3)
             /\ MissingShownAsPlaceholder(1, source.inst.rows, "pctHeld", 4)
    /\ (Called("get_ticker_data") /\ Returned /\ Has(result.lines, "KEY METRICS"))
          => \A i \in DOMAIN result.lines :
                /\ (Labelled(result.lines[i], "Trailing P/E")
                        /\ Missing(source.info.v.trailingPE))
                      => result.lines[i][2] \in Placeholders
                /\ (Labelled(result.lines[i], "Forward P/E")
                        /\ Missing(source.info.v.forwardPE))
                      => result.lines[i][2] \in Placeholders
                /\ (Labelled(result.lines[i], "PEG Ratio")
                        /\ Missing(source.info.v.trailingPegRatio))
                      => result.lines[i][2] \in Placeholders

---------------------------------------------------------------------------
(* C4 *)

\* C4: in the options report the Type cell of a row is "C" exactly when the
\* contract is a call and "P" exactly when it is a put, whatever letters the
\* underlying ticker contains.
C4_TypeCellIsContractSide ==
    (Called("get_available_options") /\ IsTable(0, OptionHeaders))
        => \A i \in DOMAIN source.v.rows :
              i + 1 <= Len(result.lines)
                  => TableCell(0, i, 1)
                        = (IF IsPutSymbol(source.v.rows[i].contractSymbol) THEN "P" ELSE "C")

---------------------------------------------------------------------------
(* C5 *)

\* every fetch of the call returned, and the primary one returned records
FetchedRecords ==
    CASE Called("get_ticker_data") ->
            /\ source.info.k = "ok" /\ ~NoInfo(source.info)
            /\ \A f \in OptionalFetches : source[f].k = "ok"
      [] Called("get_institutional_holders") ->
            source.k = "ok" /\ (HasRows(source.inst) \/ HasRows(source.fund))
      [] Called("get_insider_trades") -> source.k = "ok" /\ ~Empty(source)
      [] OTHER -> FALSE

\* the first line of a report that was not replaced by a message
ReportHead ==
    CASE Called("get_ticker_data") -> {<<"COMPANY OVERVIEW">>}
      [] Called("get_institutional_holders") ->
            {<<"INSTITUTIONAL HOLDERS:">>, <<>>}
      [] OTHER -> {<<"INSIDER TRADES FOR " \o request.ticker \o ":">>}

\* C5: formatting a record never aborts a whole report: whatever the values
\* (a short date list in the calendar, a null recommendationKey, a missing
\* report date), the builder returns the report and neither raises nor
\* replaces the report with a failure line.
C5_FormattingNeverAborts ==
    FetchedRecords => (Returned /\ result.lines[1] \in ReportHead)

---------------------------------------------------------------------------
(* C6 *)

---------------------------------------------------------------------------
(* C7 *)

SectionTitles == {"COMPANY OVERVIEW", "KEY METRICS", "PERFORMANCE METRICS",
                  "ANALYST COVERAGE", "IMPORTANT DATES",
                  "RECENT ANALYST RECOMMENDATIONS", "RECENT UPGRADES/DOWNGRADES",
                  "INSTITUTIONAL HOLDERS:", "MUTUAL FUND HOLDERS:"}

\* the number of sections of the returned report
Sections == Cardinality({i \in DOMAIN result.lines :
                            \E t \in SectionTitles : result.lines[i] = <<t>>})

\* C7: a report of k >= 1 sections has no blank line before its first section
\* and exactly k-1 blank-line separators.
C7_SeparatorsBetweenSections ==
    ((Called("get_ticker_data") \/ Called("get_institutional_holders"))
            /\ Returned /\ Sections >= 1)
        => /\ result.lines[1] # <<>>
           /\ Count(result.lines, <<>>) = Sections - 1

---------------------------------------------------------------------------
(* C8 *)

\* the text of sign, tenths t and suffix
ScaledText(negative, t, suffix) ==
    "$" \o (IF negative THEN "-" ELSE "") \o ToString(t \div 10) \o "."
        \o ToString(t % 10) \o suffix

\* cell is n divided by unit, to the nearest tenth, with the suffix
IsScaled(cell, n, unit, suffix) ==
    \E t \in (Abs(n) \div (unit \div 10))..(Abs(n) \div (unit \div 10) + 1) :
        /\ 2 * Abs(Abs(n) - t * (unit \div 10)) <= unit \div 10
        /\ cell = ScaledText(n < 0, t, suffix)

\* a statement with data was fetched
StatementFetched ==
    /\ Called("get_financial_statements")
    /\ source.k = "ok" /\ source.v # None
    /\ Len(source.v.index) > 0 /\ Len(source.v.columns) > 0

\* C8: every statement cell is "N/A" iff its value is missing; otherwise it is
\* the value over 1e9 with one decimal and "B" iff its absolute value is
\* >= 1e9, and the value over 1e6 with one decimal and "M" in every other
\* case; every data row has one cell per period header plus the metric name.
C8_StatementCells ==
    StatementFetched =>
        /\ Returned
        /\ Len(result.lines) = 3 + Len(source.v.index)
        /\ Len(result.lines[3]) = 1 + Len(source.v.columns)
        /\ \A m \in DOMAIN source.v.index :
              /\ Len(result.lines[3 + m]) = Len(result.lines[3])
              /\ result.lines[3 + m][1] = source.v.index[m]
              /\ \A c \in DOMAIN source.v.columns :
                    LET v == source.v.cells[m][c]
                        cell == result.lines[3 + m][1 + c]
                    IN /\ (cell = "N/A") <=> Missing(v)
                       /\ ~Missing(v) =>
                             IF v.n >= 1000000000 \/ v.n <= -1000000000
                             THEN IsScaled(cell, v.n, 1000000000, "B")
                             ELSE IsScaled(cell, v.n, 1000000, "M")
                       /\ v = Num(1234567890) => cell = "$1.2B"
                       /\ v = Num(2500000) => cell = "$2.5M"

\* one row shows a negative billions cell beside a missing one
C8_Witness ==
    /\ StatementFetched /\ Returned
    /\ \E m \in DOMAIN source.v.index :
          /\ \E c \in DOMAIN source.v.columns : result.lines[3 + m][1 + c] = "$-1.0B"
          /\ \E c \in DOMAIN source.v.columns : result.lines[3 + m][1 + c] = "N/A"
    /\ Len(source.v.index) = MaxRows

---------------------------------------------------------------------------
(* C9 *)

\* the calendar holds an entry that makes a row
HasDateRows(cal) ==
    /\ cal.v # None
    /\ \E i \in DOMAIN cal.v.rows :
          \/ cal.v.rows[i].value.t = "date"
          \/ cal.v.rows[i].value.t = "list"

\* the frame holds a row that is not entirely missing
HasKeptRows(fetch, cols) ==
    /\ fetch.v # None
    /\ \E i \in DOMAIN fetch.v.rows : \E c \in cols : ~Missing(fetch.v.rows[i][c])

\* C9: with a non-empty info record, an optional section whose fetch is empty
\* or absent, or whose rows are all dropped, is omitted, exactly that one, and
\* the four fixed sections and every other non-empty optional section are
\* still rendered.
C9_OnlyEmptyOptionalSectionsOmitted ==
    (Called("get_ticker_data") /\ FetchedRecords) =>
        /\ Returned
        /\ \A t \in {"COMPANY OVERVIEW", "KEY METRICS", "PERFORMANCE METRICS",
                     "ANALYST COVERAGE"} : Count(result.lines, <<t>>) = 1
        /\ Has(result.lines, "IMPORTANT DATES") <=> HasDateRows(source.calendar)
        /\ Has(result.lines, "RECENT ANALYST RECOMMENDATIONS")
              <=> HasKeptRows(source.recommendations,
                              {"period", "strongBuy", "buy", "hold", "sell", "strongSell"})
        /\ Has(result.lines, "RECENT UPGRADES/DOWNGRADES")
              <=> HasKeptRows(source.upgrades, {"Firm", "FromGrade", "ToGrade"})

---------------------------------------------------------------------------
(* C10 *)

\* a chain was fetched without error
ChainFetched ==
    /\ Called("get_available_options")
    /\ source.k = "ok" /\ source.error = None

\* the limit of the call: the caller's, or 10 when omitted
Limit == IF request.num_options = Absent THEN 10 ELSE request.num_options.n

Min(a, b) == IF a < b THEN a ELSE b

\* the data rows of the report are the first n contracts, in source order
ShowsFirst(n) ==
    /\ Returned
    /\ result.lines[1] = OptionHeaders
    /\ Len(result.lines) = 1 + n
    /\ \A i \in 1..n :
          /\ result.lines[1 + i][2] = "$" \o ToString(source.v.rows[i].strike.n) \o ".00"
          /\ result.lines[1 + i][4]
                = (IF source.v.rows[i].openInterest.t = "num"
                   THEN ToString(source.v.rows[i].openInterest.n) ELSE "0")
          /\ result.lines[1 + i][5]
                = (IF source.v.rows[i].volume.t = "num" /\ source.v.rows[i].volume.n > 0
                   THEN ToString(source.v.rows[i].volume.n) ELSE "N/A")

Max(a, b) == IF a > b THEN a ELSE b

\* C10 as stated: for every integer limit N and K contracts the report holds
\* exactly the first N contracts (all K when K < N) and never more than N rows;
\* N is 10 when the limit is omitted.  A limit below 0 is read as 0 here, the
\* reading kindest to the claim: it leaves no row to show.
C10_FirstNForEveryInteger ==
    ChainFetched =>
        /\ Returned
        /\ Len(result.lines) - 1 <= Max(Limit, 0)
        /\ ShowsFirst(Min(Max(Limit, 0), Len(source.v.rows)))

\* C10 amended: for every limit N >= 0 (10 when omitted) the report holds
\* exactly the first min(N, K) contracts in source order.
C10_FirstNForNaturalLimit ==
    (ChainFetched /\ Limit >= 0) => ShowsFirst(Min(Limit, Len(source.v.rows)))

\* the limit cuts the chain: fewer rows shown than fetched
C10_Witness ==
    /\ ChainFetched /\ Returned
    /\ request.num_options = Num(1)
    /\ Len(source.v.rows) = 2
    /\ Len(result.lines) = 2

====
